---- MODULE Spec2Model ----
(***************************************************************************)
(* EditaCTF: the scoring engine (AdvancedScoringSystem) and the flag       *)
(* submission route that records solves.                                   *)
(*                                                                         *)
(* Numbers.  The engine multiplies by decimal constants and rounds with    *)
(* Math.round.  Multipliers are kept as integers in tenths (2.0 -> 20),    *)
(* the team-size modifier as a fraction num / (10 * maxTeamSize), and      *)
(* Math.round(n / d) is RoundDiv(n, d) (round half up).  Times are whole   *)
(* minutes.  A value that may be null/undefined in the code is a sequence  *)
(* of length 0 (None) or 1 (Some(v)).                                      *)
(***************************************************************************)
EXTENDS Integers, Sequences, FiniteSets, TLC

VARIABLES
    pure,        \* the latest direct call of a calculator: [fn, in, out]
    purePrev,    \* the call before it in the same series, or NoCall
    challenge,   \* table challenges: the row of the challenge, None or Some(row)
    teams,       \* table teams: the number of rows whose name is not 'guest'
    solves,      \* table solves: the rows of the challenge, [user_id, team_name]
    settings,    \* table competition_settings: latest row, None or Some(row)
    profiles,    \* table profiles: user -> team_name
    ctf_teams,   \* table ctf_teams: the names taken
    req,         \* the requests in flight: request -> its position and locals
    teamCreate,  \* POST /api/team/create in flight: user -> None or Some(name)
    now,         \* Date.now(), in units of 60 s
    rateLimitMap,   \* rate-limiter.ts: key -> None or Some(entry)
    lastCheck,      \* the checkRateLimit call of the step just taken, if any
    granted,        \* per key: the window of the latest allowed call and the
                    \* number of allowed calls that returned this window
    lastPass,       \* the request middleware() handled in the step just taken:
                    \* what rateLimitMiddleware's call returned, the quota
                    \* the request used up, whether it left the key blocked
    user_roles,     \* table user_roles: the rows [user_id, role] (all active)
    adminEmails,    \* process.env.ADMIN_EMAILS: the users whose email it lists
    lastRoleWrite   \* the latest write to user_roles by an admin endpoint

vars == <<pure, purePrev, challenge, teams, solves, settings, profiles,
          ctf_teams, req, teamCreate, now, rateLimitMap, lastCheck, granted,
          lastPass, user_roles, adminEmails, lastRoleWrite>>
limiterVars == <<now, rateLimitMap, lastCheck, granted, lastPass>>
roleVars == <<user_roles, adminEmails, lastRoleWrite>>
pureVars == <<pure, purePrev>>
storeVars == <<challenge, teams, solves, settings, profiles, ctf_teams>>

----------------------------------------------------------------------------
(* Optional values *)

None == <<>>
Some(v) == <<v>>
IsNone(o) == Len(o) = 0
IsSome(o) == Len(o) = 1
Get(o) == o[1]

\* no direct call of a calculator yet
NoCall == [fn |-> "none", in |-> <<>>, out |-> 0]

\* the keys of rateLimitMap: `${endpointType}:${identifier}` for one client
EndpointTypes == {"flag_submission", "team_operations"}
NoCheck == [key |-> "none", at |-> 0, allowed |-> FALSE, remaining |-> 0,
            resetTime |-> 0, blocked |-> FALSE]
NoPass == [key |-> "none", passed |-> FALSE, remaining |-> 0,
           resetTime |-> 0, consumed |-> 0, blockedAfter |-> FALSE]

\* the rate limiter of a freshly started server
LimiterIdle ==
    /\ now = 0
    /\ rateLimitMap = [k \in EndpointTypes |-> None]
    /\ lastCheck = NoCheck
    /\ granted = [k \in EndpointTypes |-> [resetTime |-> 0, n |-> 0]]
    /\ lastPass = NoPass

RolesIdle ==
    /\ user_roles = {}
    /\ adminEmails = {}
    /\ lastRoleWrite = None

Max(a, b) == IF a >= b THEN a ELSE b

\* Math.round(n / d) for d > 0: floor(n/d + 1/2)
RoundDiv(n, d) == (2 * n + d) \div (2 * d)

----------------------------------------------------------------------------
(* Bounds of the explored inputs *)

MaxTeams == 11         \* eligible team counts 0..MaxTeams
MaxSolveCount == 9     \* solve counts 0..MaxSolveCount
MaxTeamSizeArg == 10   \* team sizes 0..MaxTeamSizeArg
MaxMaxTeamSize == 5    \* maxTeamSize arguments 1..MaxMaxTeamSize

PointsValues == {0, 5, 275}          \* 0: the points column is 0 / null (-> 100)
Difficulties == {"easy", "medium", "hard", "expert", "insane"}
Categories == {"crypto", "pwn", "reverse", "web", "forensics", "misc", "osint"}

\* minutes between release and solve; the thresholds sit at 60, 120, 240, ...
ElapsedValues == {-600, -1, 0, 30, 60, 61, 120, 121, 240, 241, 360, 361,
                  480, 481, 720, 721, 1440, 1441, 2880, 2881}
ReleaseBase == 1000

ChallengeRows ==
    [points : PointsValues, difficulty : Difficulties, category : Categories,
     daily : BOOLEAN, created_at : {Some(ReleaseBase)}]

----------------------------------------------------------------------------
(* calculateDynamicPoints: the arithmetic after the three reads *)

\* the table with the 1.2 and 1.0 rows exchanged
RarityMultiplierRowsSwapped(solveCount, totalTeams) ==
    IF solveCount = 0 THEN 20
    ELSE IF 10 * solveCount < totalTeams THEN 18
    ELSE IF 4 * solveCount < totalTeams THEN 15
    ELSE IF 2 * solveCount < totalTeams THEN 10
    ELSE IF 5 * solveCount < 4 * totalTeams THEN 12
    ELSE 7

\* rarity multiplier in tenths
RarityMultiplier(solveCount, totalTeams) ==
    IF solveCount = 0 THEN 20
    ELSE IF 10 * solveCount < totalTeams THEN 18
    ELSE IF 4 * solveCount < totalTeams THEN 15
    ELSE IF 2 * solveCount < totalTeams THEN 12
    ELSE IF 5 * solveCount < 4 * totalTeams THEN 10
    ELSE 7

difficultyMultiplier(d) ==
    CASE d = "easy" -> 10
      [] d = "medium" -> 13
      [] d = "hard" -> 16
      [] d = "expert" -> 20
      [] OTHER -> 10

\* the crypto and web entries of the table exchanged
categoryMultiplierCryptoAsWeb(c) ==
    CASE c = "crypto" -> 10
      [] c = "pwn" -> 13
      [] c = "reverse" -> 12
      [] c = "web" -> 12
      [] c = "forensics" -> 11
      [] c = "misc" -> 10
      [] OTHER -> 10

categoryMultiplier(c) ==
    CASE c = "crypto" -> 12
      [] c = "pwn" -> 13
      [] c = "reverse" -> 12
      [] c = "web" -> 10
      [] c = "forensics" -> 11
      [] c = "misc" -> 10
      [] OTHER -> 10

dailyMultiplier(daily) == IF daily THEN 15 ELSE 10

\* challenge.points || 100
BasePointsOf(points) == IF points = 0 THEN 100 ELSE points

\* the daily challenge multiplier left out of the product
DynamicPointsWithoutDaily(chRow, totalTeams, solveCount) ==
    IF IsNone(chRow) THEN 0
    ELSE
      LET ch == Get(chRow)
          basePoints == BasePointsOf(ch.points)
          sc == IF IsNone(solveCount) THEN 0 ELSE Get(solveCount)
      IN  IF IsNone(totalTeams) \/ Get(totalTeams) = 0 THEN basePoints
          ELSE
            LET finalPoints ==
                  RoundDiv(basePoints * RarityMultiplier(sc, Get(totalTeams))
                             * difficultyMultiplier(ch.difficulty)
                             * categoryMultiplier(ch.category), 1000)
            IN  Max(finalPoints, RoundDiv(basePoints * 3, 10))

\* chRow: None or Some(row); totalTeams, solveCount: None or Some(n)
DynamicPoints(chRow, totalTeams, solveCount) ==
    IF IsNone(chRow) THEN 0
    ELSE
      LET ch == Get(chRow)
          basePoints == BasePointsOf(ch.points)
          sc == IF IsNone(solveCount) THEN 0 ELSE Get(solveCount)
      IN  IF IsNone(totalTeams) \/ Get(totalTeams) = 0 THEN basePoints
          ELSE
            LET finalPoints ==
                  RoundDiv(basePoints * RarityMultiplier(sc, Get(totalTeams))
                             * difficultyMultiplier(ch.difficulty)
                             * categoryMultiplier(ch.category)
                             * dailyMultiplier(ch.daily), 10000)
            IN  Max(finalPoints, RoundDiv(basePoints * 3, 10))

----------------------------------------------------------------------------
(* calculateTeamSizeModifier: the numerator of the modifier over            *)
(* ModifierDen(maxTeamSize)                                                *)

ModifierDen(maxTeamSize) == 10 * maxTeamSize

calculateTeamSizeModifier(teamSize, maxTeamSize) ==
    IF teamSize <= 1 THEN ModifierDen(maxTeamSize)
    ELSE Max(7 * maxTeamSize, 13 * maxTeamSize - 3 * teamSize)

----------------------------------------------------------------------------
(* calculateSpeedBonus *)

\* an unknown difficulty falling back to the first row of the table
speedThresholdsFirstRowDefault(d) ==
    CASE d = "medium" -> [fast |-> 2, medium |-> 12]
      [] d = "hard" -> [fast |-> 4, medium |-> 24]
      [] d = "expert" -> [fast |-> 8, medium |-> 48]
      [] OTHER -> [fast |-> 1, medium |-> 6]

speedThresholds(d) ==
    CASE d = "easy" -> [fast |-> 1, medium |-> 6]
      [] d = "medium" -> [fast |-> 2, medium |-> 12]
      [] d = "hard" -> [fast |-> 4, medium |-> 24]
      [] d = "expert" -> [fast |-> 8, medium |-> 48]
      [] OTHER -> [fast |-> 2, medium |-> 12]

\* releaseTime: None (an undefined / unparsable date: NaN) or Some(minutes)
calculateSpeedBonus(releaseTime, solveTime, difficulty) ==
    IF IsNone(releaseTime) THEN 0       \* NaN <= x is false twice
    ELSE
      LET timeDiff == solveTime - Get(releaseTime)
          thresholds == speedThresholds(difficulty)
      IN  IF timeDiff <= thresholds.fast * 60 THEN 25
          ELSE IF timeDiff <= thresholds.medium * 60 THEN 10
          ELSE 0

----------------------------------------------------------------------------
(* Users, teams and requests *)

NumUsers == 3
NumTeams == 2
NumReq == 2

Users == 1..NumUsers
Reqs == 1..NumReq

\* team_name values: NULL, the default 'guest', `guest_${user.id}`, a real team
NullTeam == [kind |-> "null", id |-> 0]
GuestTeam == [kind |-> "guest", id |-> 0]
GuestOf(u) == [kind |-> "guest_", id |-> u]
RealTeam(t) == [kind |-> "team", id |-> t]
RealTeams == {RealTeam(t) : t \in 1..NumTeams}

\* the outcome of one awaited query: the rows asked for, { data: null } with
\* an error the caller does not look at, or a rejected promise
Outcomes == {"ok", "null", "throw"}

NoBreakdown == None

\* what POST /api/flag found out about a request before it looks at the
\* challenge: the rate limiter's answer, id and flag present, the flag's
\* format, the token ("none", "invalid", "valid"), the profile's display
\* name, the challenge_flags row, and secret.flag === flag
Gate(allowed, present, format, token, displayName, known, correct) ==
    [allowed |-> allowed, present |-> present, format |-> format,
     token |-> token, displayName |-> displayName, known |-> known,
     correct |-> correct]
NoGate == Gate(FALSE, FALSE, FALSE, "none", FALSE, FALSE, FALSE)
PassedGate == Gate(TRUE, TRUE, TRUE, "valid", TRUE, TRUE, TRUE)

IdleReq ==
    [pc |-> "idle", gate |-> NoGate, user |-> 0, teamName |-> NullTeam, teamSize |-> 0,
     solveTime |-> 0, points |-> 0, chSnap |-> None, dpCh |-> None,
     dpTeams |-> None, dynamicPoints |-> 0, result |-> NoBreakdown,
     awarded |-> 0, inserted |-> FALSE, teamHadSolve |-> FALSE]

Set(p, r) == req' = [req EXCEPT ![p] = r]

----------------------------------------------------------------------------
(* calculateTotalScore, one action per awaited read *)

DefaultMaxTeamSize == 4

\* a total that leaves the speed bonus out
BreakdownWithoutSpeed(r, firstBlood) ==
    LET teamSizeModifier ==
            calculateTeamSizeModifier(r.teamSize, DefaultMaxTeamSize)
        speedBonus == calculateSpeedBonus(Some(r.solveTime), r.solveTime, "easy")
    IN  [basePoints |-> 100,
         dynamicPoints |-> r.dynamicPoints,
         firstBloodBonus |-> firstBlood.points,
         speedBonus |-> speedBonus,
         teamSizeModifier |-> teamSizeModifier,
         totalPoints |-> RoundDiv(r.dynamicPoints * teamSizeModifier,
                                  ModifierDen(DefaultMaxTeamSize))
                         + firstBlood.points,
         isFirstBlood |-> firstBlood.isFirstBlood,
         difficulty |-> "unknown", category |-> "unknown", daily |-> FALSE,
         fallback |-> FALSE]

\* lines 242-268: the synchronous tail after the last await
Breakdown(r, firstBlood) ==
    LET ch == r.chSnap
        basePoints == IF IsNone(ch) THEN 100 ELSE BasePointsOf(Get(ch).points)
        release == IF IsSome(ch) /\ IsSome(Get(ch).created_at)
                   THEN Get(ch).created_at ELSE Some(r.solveTime)
        speedBonus == calculateSpeedBonus(release, r.solveTime,
                          IF IsNone(ch) THEN "medium" ELSE Get(ch).difficulty)
        teamSizeModifier ==
            calculateTeamSizeModifier(r.teamSize, DefaultMaxTeamSize)
        adjustedPoints == RoundDiv(r.dynamicPoints * teamSizeModifier,
                                   ModifierDen(DefaultMaxTeamSize))
    IN  [basePoints |-> basePoints,
         dynamicPoints |-> r.dynamicPoints,
         firstBloodBonus |-> firstBlood.points,
         speedBonus |-> speedBonus,
         teamSizeModifier |-> teamSizeModifier,
         totalPoints |-> adjustedPoints + firstBlood.points + speedBonus,
         isFirstBlood |-> firstBlood.isFirstBlood,
         difficulty |-> IF IsNone(ch) THEN "unknown" ELSE Get(ch).difficulty,
         category |-> IF IsNone(ch) THEN "unknown" ELSE Get(ch).category,
         daily |-> IF IsNone(ch) THEN FALSE ELSE Get(ch).daily,
         fallback |-> FALSE]

\* lines 269-281: the catch block of calculateTotalScore
FallbackBreakdown ==
    [basePoints |-> 100, dynamicPoints |-> 100, firstBloodBonus |-> 0,
     speedBonus |-> 0, teamSizeModifier |-> ModifierDen(DefaultMaxTeamSize),
     totalPoints |-> 100, isFirstBlood |-> FALSE, difficulty |-> "unknown",
     category |-> "unknown", daily |-> FALSE, fallback |-> TRUE]

Finish(p, r, firstBlood) ==
    Set(p, [r EXCEPT !.pc = "scored", !.result = Some(Breakdown(r, firstBlood)),
                     !.chSnap = None, !.dynamicPoints = 0])

\* the first read outside the try block: its exception reaches the caller
TSReadChallengeUncaught(p, o) ==
    /\ req[p].pc = "ts_challenge"
    /\ IF o = "throw"
       THEN Set(p, [req[p] EXCEPT !.pc = "threw"])
       ELSE Set(p, [req[p] EXCEPT !.pc = "dp_challenge",
                       !.chSnap = IF o = "ok" THEN challenge ELSE None])
    /\ UNCHANGED <<limiterVars, roleVars, pureVars, storeVars, teamCreate>>

\* line 231: the aggregator's own read of the challenge
TSReadChallenge(p, o) ==
    /\ req[p].pc = "ts_challenge"
    /\ IF o = "throw"
       THEN Set(p, [req[p] EXCEPT !.pc = "scored",
                                  !.result = Some(FallbackBreakdown)])
       ELSE Set(p, [req[p] EXCEPT !.pc = "dp_challenge",
                       !.chSnap = IF o = "ok" THEN challenge ELSE None])
    /\ UNCHANGED <<limiterVars, roleVars, pureVars, storeVars, teamCreate>>

\* the catch block returning 0, as the missing-challenge path does
DPCaughtReturningZero(p) ==
    Set(p, [req[p] EXCEPT !.pc = "fb_first", !.dynamicPoints = 0,
                          !.dpCh = None, !.dpTeams = None])

\* the catch block of calculateDynamicPoints (lines 135-138)
DPCaught(p) ==
    Set(p, [req[p] EXCEPT !.pc = "fb_first", !.dynamicPoints = 100,
                          !.dpCh = None, !.dpTeams = None])

\* line 64: calculateDynamicPoints reads the challenge again
DPReadChallenge(p, o) ==
    /\ req[p].pc = "dp_challenge"
    /\ LET ch == IF o = "ok" THEN challenge ELSE None
       IN  IF o = "throw" THEN DPCaught(p)
           ELSE IF IsNone(ch)
           THEN Set(p, [req[p] EXCEPT !.pc = "fb_first",
                           !.dynamicPoints = DynamicPoints(None, None, None)])
           ELSE Set(p, [req[p] EXCEPT !.pc = "dp_teams", !.dpCh = ch])
    /\ UNCHANGED <<limiterVars, roleVars, pureVars, storeVars, teamCreate>>

\* line 75: the number of teams
DPReadTeams(p, o) ==
    /\ req[p].pc = "dp_teams"
    /\ IF o = "throw" THEN DPCaught(p)
       ELSE Set(p, [req[p] EXCEPT !.pc = "dp_solves",
                       !.dpTeams = IF o = "ok" THEN Some(teams) ELSE None])
    /\ UNCHANGED <<limiterVars, roleVars, pureVars, storeVars, teamCreate>>

\* line 81: the number of solves of the challenge, then lines 86-134
DPReadSolves(p, o) ==
    /\ req[p].pc = "dp_solves"
    /\ IF o = "throw" THEN DPCaught(p)
       ELSE LET solveCount == IF o = "ok" THEN Some(Cardinality(solves))
                              ELSE None
            IN  Set(p, [req[p] EXCEPT !.pc = "fb_first",
                    !.dynamicPoints =
                        DynamicPoints(req[p].dpCh, req[p].dpTeams, solveCount),
                    !.dpCh = None, !.dpTeams = None])
    /\ UNCHANGED <<limiterVars, roleVars, pureVars, storeVars, teamCreate>>

NotFirstBlood == [points |-> 0, isFirstBlood |-> FALSE]

\* a row of competition_settings as POST /api/admin/scoring upserts it
SettingsRow(firstBloodBonus, dynamicScoring, teamSizePenalty, speedBonus) ==
    [first_blood_bonus |-> firstBloodBonus, dynamic_scoring |-> dynamicScoring,
     team_size_penalty |-> teamSizePenalty, speed_bonus |-> speedBonus]

\* settings?.first_blood_bonus || 50
FirstBloodBonusOf(row) ==
    IF IsNone(row) \/ Get(row).first_blood_bonus = 0 THEN 50
    ELSE Get(row).first_blood_bonus

\* line 145: calculateFirstBloodBonus reads the earliest solve
FBReadFirstSolve(p, o) ==
    /\ req[p].pc = "fb_first"
    /\ LET firstSolve == o = "ok" /\ solves # {}
           isFirstBlood == ~firstSolve
       IN  IF o = "throw" THEN Finish(p, req[p], NotFirstBlood)
           ELSE IF isFirstBlood
           THEN Set(p, [req[p] EXCEPT !.pc = "fb_settings"])
           ELSE Finish(p, req[p], NotFirstBlood)
    /\ UNCHANGED <<limiterVars, roleVars, pureVars, storeVars, teamCreate>>

\* the settings read creating the default row when it finds none
FBReadSettingsCreatingRow(p, o) ==
    /\ req[p].pc = "fb_settings"
    /\ IF o = "throw" THEN Finish(p, req[p], NotFirstBlood)
       ELSE LET row == IF o = "ok" THEN settings ELSE None
            IN  Finish(p, req[p], [points |-> FirstBloodBonusOf(row),
                                   isFirstBlood |-> TRUE])
    /\ settings' = IF o = "ok" /\ IsNone(settings)
                   THEN Some(SettingsRow(50, TRUE, TRUE, TRUE)) ELSE settings
    /\ UNCHANGED <<limiterVars, roleVars, pureVars, challenge, teams, solves, profiles, ctf_teams,
                   teamCreate>>

\* line 157: the configured bonus, then the tail of calculateTotalScore
FBReadSettings(p, o) ==
    /\ req[p].pc = "fb_settings"
    /\ IF o = "throw" THEN Finish(p, req[p], NotFirstBlood)
       ELSE LET row == IF o = "ok" THEN settings ELSE None
            IN  Finish(p, req[p], [points |-> FirstBloodBonusOf(row),
                                   isFirstBlood |-> TRUE])
    /\ UNCHANGED <<limiterVars, roleVars, pureVars, storeVars, teamCreate>>

calculateTotalScore(p, o) ==
    \/ TSReadChallenge(p, o)
    \/ DPReadChallenge(p, o)
    \/ DPReadTeams(p, o)
    \/ DPReadSolves(p, o)
    \/ FBReadFirstSolve(p, o)
    \/ FBReadSettings(p, o)

----------------------------------------------------------------------------
(* One scoring computation against stores in any state *)

ScoreMaxTeams == 3
ScoreMaxSolves == 2

ScoreRows ==
    [points : {0, 500}, difficulty : {"easy", "expert"},
     category : {"web", "pwn"}, daily : BOOLEAN,
     created_at : {None, Some(ReleaseBase)}]
\* no row, or a row with every scoring toggle on, or with every toggle off
ScoreSettings ==
    {None} \cup {Some(SettingsRow(b, t, t, t)) : b \in {0, 10}, t \in BOOLEAN}
ScoreTeamSizes == {1, 2, 9}
ScoreElapsed == {-1, 30, 3000}

\* a caller invokes calculateTotalScore(challengeId, teamId, teamSize, solveTime)
BeginScore(p) ==
    /\ req[p].pc = "idle"
    /\ \E ts \in ScoreTeamSizes, e \in ScoreElapsed :
          Set(p, [req[p] EXCEPT !.pc = "ts_challenge", !.teamSize = ts,
                                !.teamName = RealTeam(1),
                                !.solveTime = ReleaseBase + e])
    /\ UNCHANGED <<limiterVars, roleVars, pureVars, storeVars, teamCreate>>

InitScore ==
    /\ pure = NoCall
    /\ purePrev = NoCall
    /\ challenge \in {Some(row) : row \in ScoreRows}
    /\ teams \in 0..ScoreMaxTeams
    /\ \E n \in 0..ScoreMaxSolves :
          solves = {[user_id |-> u, team_name |-> GuestOf(u)] : u \in 1..n}
    /\ settings \in ScoreSettings
    /\ profiles = [u \in Users |-> NullTeam]
    /\ ctf_teams = {}
    /\ req = [p \in Reqs |-> IdleReq]
    /\ teamCreate = [u \in Users |-> None]
    /\ LimiterIdle
    /\ RolesIdle

NextScore ==
    \/ BeginScore(1)
    \/ \E o \in Outcomes : calculateTotalScore(1, o)

SpecScore == InitScore /\ [][NextScore]_vars

\* The computation with every outcome of every read, over fewer store
\* contents; every awaited read settles: with a row, with nothing, or by
\* throwing.
InitReturn ==
    /\ pure = NoCall
    /\ purePrev = NoCall
    /\ challenge \in {Some(row) : row \in
                         {r \in ScoreRows : r.points = 500 /\ ~r.daily}}
    /\ teams \in {0, ScoreMaxTeams}
    /\ \E n \in 0..ScoreMaxSolves :
          solves = {[user_id |-> u, team_name |-> GuestOf(u)] : u \in 1..n}
    /\ settings \in {None, Some(SettingsRow(10, TRUE, TRUE, TRUE))}
    /\ profiles = [u \in Users |-> NullTeam]
    /\ ctf_teams = {}
    /\ req = [p \in Reqs |-> IdleReq]
    /\ teamCreate = [u \in Users |-> None]
    /\ LimiterIdle
    /\ RolesIdle

SpecReturn == InitReturn /\ [][NextScore]_vars /\ WF_vars(NextScore)

\* the computation when the challenge reads succeed and any read of the
\* teams, solves and settings tables may fail
NextStoreFail ==
    \/ BeginScore(1)
    \/ TSReadChallenge(1, "ok")
    \/ DPReadChallenge(1, "ok")
    \/ \E o \in Outcomes :
          \/ DPReadTeams(1, o)
          \/ DPReadSolves(1, o)
          \/ FBReadFirstSolve(1, o)
          \/ FBReadSettings(1, o)

SpecStoreFail == InitScore /\ [][NextStoreFail]_vars

\* the same computation when every read succeeds
NextEngine ==
    \/ BeginScore(1)
    \/ calculateTotalScore(1, "ok")

SpecEngine == InitScore /\ [][NextEngine]_vars

----------------------------------------------------------------------------
(* One scoring computation while administrators change the challenge row   *)
(* and the scoring configuration                                           *)

SnapRows ==
    [points : {100, 500}, difficulty : {"easy", "hard"}, category : {"web"},
     daily : {FALSE}, created_at : {Some(ReleaseBase)}]
\* the POST stores the firstBloodBonus of the body as it is, negative or not
SnapSettings ==
    {Some(SettingsRow(b, t, t, t)) : b \in {-5, 10, 50}, t \in BOOLEAN}

\* challenge management edits the row in the challenges table
AdminUpdateChallenge ==
    /\ \E row \in SnapRows :
          /\ Some(row) # challenge
          /\ challenge' = Some(row)
    /\ UNCHANGED <<limiterVars, roleVars, pureVars, teams, solves, settings, profiles, ctf_teams,
                   req, teamCreate>>

\* POST /api/admin/scoring: a super admin upserts the settings row
UpdateScoringConfig ==
    /\ \E row \in SnapSettings :
          /\ row # settings
          /\ settings' = row
    /\ UNCHANGED <<limiterVars, roleVars, pureVars, challenge, teams, solves, profiles, ctf_teams,
                   req, teamCreate>>

InitSnapshot ==
    /\ pure = NoCall
    /\ purePrev = NoCall
    /\ challenge \in {Some(row) : row \in SnapRows}
    /\ teams = ScoreMaxTeams
    /\ solves = {}
    /\ settings \in {None} \cup SnapSettings
    /\ profiles = [u \in Users |-> NullTeam]
    /\ ctf_teams = {}
    /\ req = [p \in Reqs |-> IdleReq]
    /\ teamCreate = [u \in Users |-> None]
    /\ LimiterIdle
    /\ RolesIdle

NextSnapshot ==
    \/ BeginScore(1)
    \/ calculateTotalScore(1, "ok")
    \/ AdminUpdateChallenge
    \/ UpdateScoringConfig

SpecSnapshot == InitSnapshot /\ [][NextSnapshot]_vars

----------------------------------------------------------------------------
(* POST /api/flag for a request that passed rate limiting, authentication,  *)
(* the display-name check and the comparison with the stored flag.  The     *)
(* route does not call the engine itself; the scoring computation of a      *)
(* submission is placed where the engine's caller has to run it: after the  *)
(* team is known and before the solve is written.                           *)

TeamHasSolve(t) == \E s \in solves : s.team_name = t

\* the number of profiles on the team (the teamSize handed to the engine)
MembersOf(t) == Cardinality({u \in Users : profiles[u] = t})

\* lines 126-144: challenge points, team name, guest upgrade, for the
\* request of user u that got past the checks recorded in g
Accepted(p, u, g) ==
    LET teamName == IF profiles[u] \in {NullTeam, GuestTeam}
                    THEN GuestOf(u) ELSE profiles[u]
        points == IF IsNone(challenge) THEN 0 ELSE Get(challenge).points
    IN  /\ profiles' = IF profiles[u] = GuestTeam
                       THEN [profiles EXCEPT ![u] = teamName]
                       ELSE profiles
        /\ Set(p, [req[p] EXCEPT !.pc = "ts_challenge", !.gate = g,
                      !.user = u,
                      !.teamName = teamName, !.points = points,
                      !.awarded = points,
                      !.teamSize = Max(1, MembersOf(teamName)),
                      !.solveTime = ReleaseBase + 30,
                      !.teamHadSolve = TeamHasSolve(teamName)])

\* lines 79-144 for a request that passed every check before them
Submit(p) ==
    /\ req[p].pc = "idle"
    /\ \E u \in Users : Accepted(p, u, PassedGate)
    /\ UNCHANGED <<limiterVars, roleVars, pureVars, challenge, teams, solves, settings, ctf_teams,
                   teamCreate>>

\* lines 146-156: has this team a solve of the challenge already?
CheckExistingTeamSolve(p) ==
    /\ req[p].pc = "scored"
    /\ Set(p, [req[p] EXCEPT !.pc = "insert",
                  !.awarded = IF TeamHasSolve(req[p].teamName) THEN 0 ELSE @])
    /\ UNCHANGED <<limiterVars, roleVars, pureVars, storeVars, teamCreate>>

\* the insert's conflict target: "user_id,challenge_id"
Conflicts(row) == \E s \in solves : s.user_id = row.user_id

\* lines 158-169: the insert, whose result is not looked at, and the response
InsertSolve(p) ==
    /\ req[p].pc = "insert"
    /\ LET row == [user_id |-> req[p].user, team_name |-> req[p].teamName]
       IN  /\ solves' = IF Conflicts(row) THEN solves ELSE solves \cup {row}
           /\ Set(p, [req[p] EXCEPT !.pc = "done",
                                    !.inserted = ~Conflicts(row)])
    /\ UNCHANGED <<limiterVars, roleVars, pureVars, challenge, teams, settings, profiles, ctf_teams,
                   teamCreate>>

----------------------------------------------------------------------------
(* POST /api/team/create *)

\* lines 26-63: the caller is on no real team, the name is free; the team
\* row and the caller's profile are written
CreateTeam(u) ==
    /\ teamCreate[u] = None
    /\ profiles[u].kind \in {"null", "guest_"}
    /\ \E t \in RealTeams :
          /\ t \notin ctf_teams
          /\ ctf_teams' = ctf_teams \cup {t}
          /\ profiles' = [profiles EXCEPT ![u] = t]
          /\ teamCreate' = [teamCreate EXCEPT ![u] = Some(t)]
    /\ UNCHANGED <<limiterVars, roleVars, pureVars, challenge, teams, solves, settings, req>>

\* lines 97-98: the caller's earlier solves are moved to the new team
UpdateHistoricalSolves(u) ==
    /\ teamCreate[u] # None
    /\ solves' = {IF s.user_id = u
                  THEN [s EXCEPT !.team_name = Get(teamCreate[u])] ELSE s
                  : s \in solves}
    /\ teamCreate' = [teamCreate EXCEPT ![u] = None]
    /\ UNCHANGED <<limiterVars, roleVars, pureVars, challenge, teams, settings, profiles, ctf_teams,
                   req>>

----------------------------------------------------------------------------
(* Concurrent flag submissions for one challenge *)

FlagChallenge ==
    [points |-> 100, difficulty |-> "hard", category |-> "crypto",
     daily |-> FALSE, created_at |-> Some(ReleaseBase)]

InitFlag ==
    /\ pure = NoCall
    /\ purePrev = NoCall
    /\ challenge = Some(FlagChallenge)
    /\ teams = NumUsers
    /\ solves = {}
    /\ settings = Some(SettingsRow(50, TRUE, TRUE, TRUE))
    /\ profiles \in [Users -> {NullTeam, GuestTeam, RealTeam(1)}]
    /\ ctf_teams = {profiles[u] : u \in Users} \cap RealTeams
    /\ req = [p \in Reqs |-> IdleReq]
    /\ teamCreate = [u \in Users |-> None]
    /\ LimiterIdle
    /\ RolesIdle

NextFlag ==
    \/ \E p \in Reqs :
          \/ Submit(p)
          \/ calculateTotalScore(p, "ok")
          \/ CheckExistingTeamSolve(p)
          \/ InsertSolve(p)
    \/ \E u \in Users :
          \/ CreateTeam(u)
          \/ UpdateHistoricalSolves(u)

SpecFlag == InitFlag /\ [][NextFlag]_vars

----------------------------------------------------------------------------
(* One computation for the 100-point hard crypto challenge, reads succeed *)

InitExample ==
    /\ pure = NoCall
    /\ purePrev = NoCall
    /\ challenge = Some(FlagChallenge)
    /\ teams \in 0..ScoreMaxTeams
    /\ \E n \in 0..ScoreMaxSolves :
          solves = {[user_id |-> u, team_name |-> GuestOf(u)] : u \in 1..n}
    /\ settings \in {None} \cup
                     {Some(SettingsRow(b, TRUE, TRUE, TRUE)) : b \in {10, 50}}
    /\ profiles = [u \in Users |-> NullTeam]
    /\ ctf_teams = {}
    /\ req = [p \in Reqs |-> IdleReq]
    /\ teamCreate = [u \in Users |-> None]
    /\ LimiterIdle
    /\ RolesIdle

SpecExample == InitExample /\ [][NextEngine]_vars

----------------------------------------------------------------------------
(* lib/rate-limiter.ts and lib/middleware.ts.  Times are in units of 60 s;  *)
(* blockUntil = 0 stands for an undefined blockUntil.                       *)

MaxTime == 8

\* RATE_LIMITS[endpointType]
windowMs(k) == 1
maxRequests(k) == IF k = "flag_submission" THEN 5 ELSE 10
blockDurationMs(k) == IF k = "flag_submission" THEN 5 ELSE 0

Denied(resetTime, blocked) ==
    [allowed |-> FALSE, remaining |-> 0, resetTime |-> resetTime,
     blocked |-> blocked]

\* the limit test with > in place of >=
checkRateLimitOffByOne(map, k, t) ==
    LET entry == map[k]
        e == Get(entry)
    IN  IF IsSome(entry) /\ e.blocked /\ e.blockUntil # 0 /\ t < e.blockUntil
        THEN [map |-> map, result |-> Denied(e.blockUntil, TRUE)]
        ELSE IF IsNone(entry) \/ t > e.resetTime
        THEN LET newEntry == [count |-> 1, resetTime |-> t + windowMs(k),
                              blocked |-> FALSE, blockUntil |-> 0]
             IN  [map |-> [map EXCEPT ![k] = Some(newEntry)],
                  result |-> [allowed |-> TRUE,
                              remaining |-> maxRequests(k) - 1,
                              resetTime |-> newEntry.resetTime,
                              blocked |-> FALSE]]
        ELSE IF e.count > maxRequests(k)
        THEN LET e2 == IF blockDurationMs(k) # 0
                       THEN [e EXCEPT !.blocked = TRUE,
                                      !.blockUntil = t + blockDurationMs(k)]
                       ELSE e
             IN  [map |-> [map EXCEPT ![k] = Some(e2)],
                  result |-> Denied(e.resetTime, e2.blocked)]
        ELSE LET e2 == [e EXCEPT !.count = @ + 1]
             IN  [map |-> [map EXCEPT ![k] = Some(e2)],
                  result |-> [allowed |-> TRUE,
                              remaining |-> Max(0, maxRequests(k) - e2.count),
                              resetTime |-> e.resetTime,
                              blocked |-> FALSE]]

\* a call during a block starting the block again
checkRateLimitBlockRestarted(map, k, t) ==
    LET entry == map[k]
        e == Get(entry)
    IN  IF IsSome(entry) /\ e.blocked /\ e.blockUntil # 0 /\ t < e.blockUntil
        THEN [map |-> [map EXCEPT ![k] =
                          Some([e EXCEPT !.blockUntil = t + blockDurationMs(k)])],
              result |-> Denied(t + blockDurationMs(k), TRUE)]
        ELSE IF IsNone(entry) \/ t > e.resetTime
        THEN LET newEntry == [count |-> 1, resetTime |-> t + windowMs(k),
                              blocked |-> FALSE, blockUntil |-> 0]
             IN  [map |-> [map EXCEPT ![k] = Some(newEntry)],
                  result |-> [allowed |-> TRUE,
                              remaining |-> maxRequests(k) - 1,
                              resetTime |-> newEntry.resetTime,
                              blocked |-> FALSE]]
        ELSE IF e.count >= maxRequests(k)
        THEN LET e2 == IF blockDurationMs(k) # 0
                       THEN [e EXCEPT !.blocked = TRUE,
                                      !.blockUntil = t + blockDurationMs(k)]
                       ELSE e
             IN  [map |-> [map EXCEPT ![k] = Some(e2)],
                  result |-> Denied(e.resetTime, e2.blocked)]
        ELSE LET e2 == [e EXCEPT !.count = @ + 1]
             IN  [map |-> [map EXCEPT ![k] = Some(e2)],
                  result |-> [allowed |-> TRUE,
                              remaining |-> Max(0, maxRequests(k) - e2.count),
                              resetTime |-> e.resetTime,
                              blocked |-> FALSE]]

\* a block that is not lifted when blockUntil has passed
checkRateLimitBlockNeverLifted(map, k, t) ==
    LET entry == map[k]
        e == Get(entry)
    IN  IF IsSome(entry) /\ e.blocked
        THEN [map |-> map, result |-> Denied(e.blockUntil, TRUE)]
        ELSE IF IsNone(entry) \/ t > e.resetTime
        THEN LET newEntry == [count |-> 1, resetTime |-> t + windowMs(k),
                              blocked |-> FALSE, blockUntil |-> 0]
             IN  [map |-> [map EXCEPT ![k] = Some(newEntry)],
                  result |-> [allowed |-> TRUE,
                              remaining |-> maxRequests(k) - 1,
                              resetTime |-> newEntry.resetTime,
                              blocked |-> FALSE]]
        ELSE IF e.count >= maxRequests(k)
        THEN LET e2 == IF blockDurationMs(k) # 0
                       THEN [e EXCEPT !.blocked = TRUE,
                                      !.blockUntil = t + blockDurationMs(k)]
                       ELSE e
             IN  [map |-> [map EXCEPT ![k] = Some(e2)],
                  result |-> Denied(e.resetTime, e2.blocked)]
        ELSE LET e2 == [e EXCEPT !.count = @ + 1]
             IN  [map |-> [map EXCEPT ![k] = Some(e2)],
                  result |-> [allowed |-> TRUE,
                              remaining |-> Max(0, maxRequests(k) - e2.count),
                              resetTime |-> e.resetTime,
                              blocked |-> FALSE]]

\* checkRateLimit(identifier, endpointType) at time t: the map after the call
\* and the value returned (blocked: undefined is FALSE)
checkRateLimit(map, k, t) ==
    LET entry == map[k]
        e == Get(entry)
    IN  IF IsSome(entry) /\ e.blocked /\ e.blockUntil # 0 /\ t < e.blockUntil
        THEN [map |-> map, result |-> Denied(e.blockUntil, TRUE)]
        ELSE IF IsNone(entry) \/ t > e.resetTime
        THEN LET newEntry == [count |-> 1, resetTime |-> t + windowMs(k),
                              blocked |-> FALSE, blockUntil |-> 0]
             IN  [map |-> [map EXCEPT ![k] = Some(newEntry)],
                  result |-> [allowed |-> TRUE,
                              remaining |-> maxRequests(k) - 1,
                              resetTime |-> newEntry.resetTime,
                              blocked |-> FALSE]]
        ELSE IF e.count >= maxRequests(k)
        THEN LET e2 == IF blockDurationMs(k) # 0
                       THEN [e EXCEPT !.blocked = TRUE,
                                      !.blockUntil = t + blockDurationMs(k)]
                       ELSE e
             IN  [map |-> [map EXCEPT ![k] = Some(e2)],
                  result |-> Denied(e.resetTime, e2.blocked)]
        ELSE LET e2 == [e EXCEPT !.count = @ + 1]
             IN  [map |-> [map EXCEPT ![k] = Some(e2)],
                  result |-> [allowed |-> TRUE,
                              remaining |-> Max(0, maxRequests(k) - e2.count),
                              resetTime |-> e.resetTime,
                              blocked |-> FALSE]]

getRemainingRequests(map, k, t) ==
    IF IsNone(map[k]) \/ t > Get(map[k]).resetTime THEN maxRequests(k)
    ELSE Max(0, maxRequests(k) - Get(map[k]).count)

isBlocked(map, k, t) ==
    /\ IsSome(map[k])
    /\ Get(map[k]).blocked
    /\ Get(map[k]).blockUntil # 0
    /\ t < Get(map[k]).blockUntil

\* cleanup removing every entry whose window is over, blocked or not
cleanupIgnoringBlocks(map, t) ==
    [k \in EndpointTypes |->
        IF IsSome(map[k]) /\ t > Get(map[k]).resetTime THEN None ELSE map[k]]

\* cleanupRateLimitEntries() at time t
cleanupRateLimitEntries(map, t) ==
    [k \in EndpointTypes |->
        IF /\ IsSome(map[k])
           /\ t > Get(map[k]).resetTime
           /\ \/ ~Get(map[k]).blocked
              \/ (Get(map[k]).blockUntil # 0 /\ t > Get(map[k]).blockUntil)
        THEN None ELSE map[k]]

\* the allowed calls counted per window returned
Counted(g, k, result) ==
    IF ~result.allowed THEN g
    ELSE IF g[k].resetTime = result.resetTime
    THEN [g EXCEPT ![k].n = @ + 1]
    ELSE [g EXCEPT ![k] = [resetTime |-> result.resetTime, n |-> 1]]

Checked(k, result) ==
    [key |-> k, at |-> now, allowed |-> result.allowed,
     remaining |-> result.remaining, resetTime |-> result.resetTime,
     blocked |-> result.blocked]

\* a route calls checkRateLimit (POST /api/flag does, line 15)
Check(k) ==
    /\ LET c == checkRateLimit(rateLimitMap, k, now)
       IN  /\ rateLimitMap' = c.map
           /\ lastCheck' = Checked(k, c.result)
           /\ granted' = Counted(granted, k, c.result)
    /\ lastPass' = NoPass
    /\ UNCHANGED <<pureVars, storeVars, req, teamCreate, roleVars, now>>

\* middleware(request) for a request that is not a preflight and carries
\* its credentials: rateLimitMiddleware (line 32), then the headers (153)
middleware(k) ==
    /\ LET first == checkRateLimit(rateLimitMap, k, now)
           second == checkRateLimit(first.map, k, now)
           before == getRemainingRequests(rateLimitMap, k, now)
       IN  IF ~first.result.allowed
           THEN /\ rateLimitMap' = first.map
                /\ lastCheck' = Checked(k, first.result)
                /\ granted' = Counted(granted, k, first.result)
                /\ lastPass' = [key |-> k, passed |-> FALSE,
                                remaining |-> first.result.remaining,
                                resetTime |-> first.result.resetTime,
                                consumed |-> 0,
                                blockedAfter |-> isBlocked(first.map, k, now)]
           ELSE /\ rateLimitMap' = second.map
                /\ lastCheck' = Checked(k, second.result)
                /\ granted' = Counted(Counted(granted, k, first.result), k,
                                      second.result)
                /\ lastPass' =
                      [key |-> k, passed |-> TRUE,
                       remaining |-> first.result.remaining,
                       resetTime |-> first.result.resetTime,
                       consumed |->
                           before - getRemainingRequests(second.map, k, now),
                       blockedAfter |-> isBlocked(second.map, k, now)]
    /\ UNCHANGED <<pureVars, storeVars, req, teamCreate, roleVars, now>>

\* setInterval(cleanupRateLimitEntries, 300000)
Cleanup ==
    /\ rateLimitMap' = cleanupRateLimitEntries(rateLimitMap, now)
    /\ rateLimitMap' # rateLimitMap
    /\ lastCheck' = NoCheck
    /\ lastPass' = NoPass
    /\ UNCHANGED <<pureVars, storeVars, req, teamCreate, roleVars, now,
                   granted>>

Tick ==
    /\ now < MaxTime
    /\ now' = now + 1
    /\ lastCheck' = NoCheck
    /\ lastPass' = NoPass
    /\ UNCHANGED <<pureVars, storeVars, req, teamCreate, roleVars,
                   rateLimitMap, granted>>

InitLimiter ==
    /\ pure = NoCall
    /\ purePrev = NoCall
    /\ challenge = None
    /\ teams = 0
    /\ solves = {}
    /\ settings = None
    /\ profiles = [u \in Users |-> NullTeam]
    /\ ctf_teams = {}
    /\ req = [p \in Reqs |-> IdleReq]
    /\ teamCreate = [u \in Users |-> None]
    /\ LimiterIdle
    /\ RolesIdle

NextLimiter ==
    \/ \E k \in EndpointTypes : Check(k)
    \/ \E k \in EndpointTypes : middleware(k)
    \/ Cleanup
    \/ Tick

SpecLimiter == InitLimiter /\ [][NextLimiter]_vars

\* time advances, and the client of every key keeps sending requests
SpecLimiterFair ==
    /\ SpecLimiter
    /\ WF_vars(Tick)
    /\ \A k \in EndpointTypes : WF_vars(Check(k))

----------------------------------------------------------------------------
(* POST /api/flag from its first line: one client sends one submission      *)
(* after another.                                                           *)

\* the inputs a request can show: a check is made only when every check
\* before it passed
GateInputs ==
    {g \in [allowed : {TRUE}, present : BOOLEAN, format : BOOLEAN,
            token : {"none", "invalid", "valid"}, displayName : BOOLEAN,
            known : BOOLEAN, correct : BOOLEAN] :
        /\ (g.format => g.present)
        /\ (g.token # "none" => g.format)
        /\ (g.displayName => g.token = "valid")
        /\ (g.known => g.displayName)
        /\ (g.correct => g.known)}

\* an incorrect flag that is logged and then treated like a correct one
FlagGateLoggingOnly(g) ==
    IF ~g.allowed THEN "429"
    ELSE IF ~g.present THEN "400"
    ELSE IF ~g.format THEN "format"
    ELSE IF g.token = "none" THEN "login"
    ELSE IF g.token = "invalid" THEN "session"
    ELSE IF ~g.displayName THEN "name"
    ELSE IF ~g.known THEN "400"
    ELSE "pass"

\* lines 15-124: the response that ends the request, or "pass"
FlagGate(g) ==
    IF ~g.allowed THEN "429"
    ELSE IF ~g.present THEN "400"
    ELSE IF ~g.format THEN "format"
    ELSE IF g.token = "none" THEN "login"
    ELSE IF g.token = "invalid" THEN "session"
    ELSE IF ~g.displayName THEN "name"
    ELSE IF ~g.known THEN "400"
    ELSE IF ~g.correct THEN "incorrect"
    ELSE "pass"

\* lines 7-144: the rate limiter is asked, then the request is looked at
POSTFlag(p) ==
    /\ req[p].pc = "idle"
    /\ LET c == checkRateLimit(rateLimitMap, "flag_submission", now)
       IN  /\ rateLimitMap' = c.map
           /\ lastCheck' = Checked("flag_submission", c.result)
           /\ granted' = Counted(granted, "flag_submission", c.result)
           /\ \E u \in Users, i \in GateInputs :
                 LET g == IF c.result.allowed THEN i ELSE NoGate
                 IN  IF FlagGate(g) = "pass"
                     THEN Accepted(p, u, g)
                     ELSE /\ Set(p, [req[p] EXCEPT !.pc = "rejected",
                                                   !.gate = g])
                          /\ UNCHANGED profiles
    /\ lastPass' = NoPass
    /\ UNCHANGED <<pureVars, challenge, teams, solves, settings, ctf_teams,
                   teamCreate, roleVars, now>>

\* the response is sent; the client may send its next submission
Respond(p) ==
    /\ req[p].pc \in {"rejected", "done"}
    /\ Set(p, IdleReq)
    /\ UNCHANGED <<limiterVars, roleVars, pureVars, storeVars, teamCreate>>

InitGate ==
    /\ pure = NoCall
    /\ purePrev = NoCall
    /\ challenge = Some(FlagChallenge)
    /\ teams = NumUsers
    /\ solves = {}
    /\ settings = Some(SettingsRow(50, TRUE, TRUE, TRUE))
    /\ profiles = [u \in Users |-> NullTeam]
    /\ ctf_teams = {}
    /\ req = [p \in Reqs |-> IdleReq]
    /\ teamCreate = [u \in Users |-> None]
    /\ LimiterIdle
    /\ RolesIdle

NextGate ==
    \/ POSTFlag(1)
    \/ calculateTotalScore(1, "ok")
    \/ CheckExistingTeamSolve(1)
    \/ InsertSolve(1)
    \/ Respond(1)
    \/ Tick

SpecGate == InitGate /\ [][NextGate]_vars

----------------------------------------------------------------------------
(* /api/admin/roles and /api/admin/users: who may write user_roles.  A      *)
(* handler is one step; a rejected call (401, 400, 403, 404, 500) changes   *)
(* nothing.                                                                 *)

NumRoleUsers == 2
RoleUsers == 1..NumRoleUsers

\* validRoles of POST /api/admin/roles, and a role outside of it
validRoles == {"user", "moderator", "admin", "super_admin"}
RoleInputs == validRoles \cup {"owner"}

\* the CHECK constraint on user_roles.role
DbRoles == {"user", "admin", "super_admin"}

\* the outcomes of a write to user_roles
WriteOutcomes == {"ok", "error"}

RoleRow(u, r) == [user_id |-> u, role |-> r]
RowsOf(rows, u) == {row \in rows : row.user_id = u}

\* .eq('user_id', id).single(): the row when there is exactly one
SingleRoleOf(rows, u) ==
    IF Cardinality(RowsOf(rows, u)) = 1
    THEN Some((CHOOSE row \in RowsOf(rows, u) : TRUE).role)
    ELSE None

\* checkAdminPermission of roles/route.ts for a caller with a valid token
checkAdminPermission(rows, emails, caller, requiredRole) ==
    LET userRole == SingleRoleOf(rows, caller)
        isAuthorized == IF IsSome(userRole) THEN Get(userRole) \in requiredRole
                        ELSE caller \in emails
    IN  [ok |-> isAuthorized,
         role |-> IF IsSome(userRole) THEN Get(userRole) ELSE "admin"]

\* checkAdminPermission of users/route.ts
checkAdminPermissionUsers(rows, emails, caller, requiredRole) ==
    LET userRole == SingleRoleOf(rows, caller)
        hasRole == IsSome(userRole) /\ Get(userRole) \in requiredRole
        hasAdminEmail == caller \in emails
    IN  [ok |-> hasRole \/ hasAdminEmail,
         role |-> IF IsSome(userRole) THEN Get(userRole) ELSE "admin"]

\* an insert into user_roles: CHECK (role IN ...) and UNIQUE(user_id, role)
InsertRole(rows, u, r, w) ==
    IF w = "ok" /\ r \in DbRoles /\ RoleRow(u, r) \notin rows
    THEN [done |-> TRUE, rows |-> rows \cup {RoleRow(u, r)}]
    ELSE [done |-> FALSE, rows |-> rows]

\* update({role}).eq('user_id', u) on the single row of u
UpdateRole(rows, u, r, w) ==
    IF w = "ok" /\ r \in DbRoles
    THEN [done |-> TRUE, rows |-> (rows \ RowsOf(rows, u)) \cup {RoleRow(u, r)}]
    ELSE [done |-> FALSE, rows |-> rows]

\* delete().eq('user_id', u)
DeleteRoles(rows, u, w) ==
    IF w = "ok"
    THEN [done |-> TRUE, rows |-> rows \ RowsOf(rows, u)]
    ELSE [done |-> FALSE, rows |-> rows]

\* what a handler leaves behind: the table, and the write if one was made
Wrote(caller, op, r, write) ==
    /\ user_roles' = write.rows
    /\ lastRoleWrite' =
          IF write.done
          THEN Some([callerRole |-> SingleRoleOf(user_roles, caller),
                     op |-> op, role |-> r])
          ELSE lastRoleWrite
    /\ UNCHANGED adminEmails

\* POST /api/admin/roles with body {userId, role}; found: the profile of
\* userId exists
RolesPOST(caller, userId, r, found, w) ==
    LET authCheck == checkAdminPermission(user_roles, adminEmails, caller,
                                          {"super_admin"})
        rejected == \/ ~authCheck.ok
                    \/ r \notin validRoles
                    \/ (r = "super_admin" /\ authCheck.role # "super_admin")
                    \/ ~found
    IN  /\ Wrote(caller, "assign", r,
                 IF rejected THEN [done |-> FALSE, rows |-> user_roles]
                 ELSE InsertRole(user_roles, userId, r, w))
        /\ UNCHANGED <<limiterVars, pureVars, storeVars, req, teamCreate>>

\* DELETE /api/admin/roles?userId=
RolesDELETE(caller, userId, w) ==
    LET authCheck == checkAdminPermission(user_roles, adminEmails, caller,
                                          {"super_admin"})
    IN  /\ Wrote(caller, "remove", "none",
                 IF ~authCheck.ok THEN [done |-> FALSE, rows |-> user_roles]
                 ELSE DeleteRoles(user_roles, userId, w))
        /\ UNCHANGED <<limiterVars, pureVars, storeVars, req, teamCreate>>

\* POST /api/admin/users with body {action: 'update_role', userId, role}
UsersPOST(caller, userId, r, w) ==
    LET authCheck == checkAdminPermissionUsers(user_roles, adminEmails, caller,
                                               {"super_admin"})
        existingRole == SingleRoleOf(user_roles, userId)
    IN  /\ Wrote(caller, "update_role", r,
                 IF ~authCheck.ok THEN [done |-> FALSE, rows |-> user_roles]
                 ELSE IF IsSome(existingRole)
                 THEN UpdateRole(user_roles, userId, r, w)
                 ELSE InsertRole(user_roles, userId, r, w))
        /\ UNCHANGED <<limiterVars, pureVars, storeVars, req, teamCreate>>

\* user 1 was granted super_admin; ADMIN_EMAILS lists any of the users
InitRoles ==
    /\ pure = NoCall
    /\ purePrev = NoCall
    /\ challenge = None
    /\ teams = 0
    /\ solves = {}
    /\ settings = None
    /\ profiles = [u \in Users |-> NullTeam]
    /\ ctf_teams = {}
    /\ req = [p \in Reqs |-> IdleReq]
    /\ teamCreate = [u \in Users |-> None]
    /\ LimiterIdle
    /\ user_roles \in {{RoleRow(1, "super_admin")},
                       {RoleRow(1, "super_admin"), RoleRow(2, "user")}}
    /\ adminEmails \in SUBSET RoleUsers
    /\ lastRoleWrite = None

NextRoles ==
    \E caller \in RoleUsers, userId \in RoleUsers, w \in WriteOutcomes :
        \/ \E r \in RoleInputs, found \in BOOLEAN :
              RolesPOST(caller, userId, r, found, w)
        \/ RolesDELETE(caller, userId, w)
        \/ \E r \in RoleInputs : UsersPOST(caller, userId, r, w)

SpecRoles == InitRoles /\ [][NextRoles]_vars

----------------------------------------------------------------------------
(* Direct calls of the calculators *)

\* A first call starts a series; the calls after it repeat the calculator
\* with the series' fixed arguments and a new value of the varied one.
Record(fn, in, out) ==
    /\ pure' = [fn |-> fn, in |-> in, out |-> out]
    /\ purePrev' = pure
    /\ UNCHANGED <<limiterVars, roleVars, storeVars, req, teamCreate>>

TeamSizeModifierCall(teamSize, maxTeamSize) ==
    Record("calculateTeamSizeModifier", <<teamSize, maxTeamSize>>,
           calculateTeamSizeModifier(teamSize, maxTeamSize))

SpeedBonusCall(release, solveTime, d) ==
    Record("calculateSpeedBonus", <<release, solveTime, d>>,
           calculateSpeedBonus(release, solveTime, d))

\* chRow: None when the challenge read finds no row
DynamicPointsCall(chRow, tt, sc) ==
    Record("calculateDynamicPoints", <<chRow, tt, sc>>,
           DynamicPoints(chRow, Some(tt), Some(sc)))

FirstCall ==
    /\ pure = NoCall
    /\ \/ \E teamSize \in 0..MaxTeamSizeArg, maxTeamSize \in 1..MaxMaxTeamSize :
             TeamSizeModifierCall(teamSize, maxTeamSize)
       \/ \E release \in {None, Some(ReleaseBase)}, e \in ElapsedValues,
             d \in Difficulties :
             SpeedBonusCall(release, ReleaseBase + e, d)
       \/ \E chRow \in {None} \cup {Some(ch) : ch \in ChallengeRows},
             tt \in 0..MaxTeams, sc \in 0..MaxSolveCount :
             DynamicPointsCall(chRow, tt, sc)

\* another team size, the same maxTeamSize
CallTeamSizeModifier ==
    /\ pure.fn = "calculateTeamSizeModifier"
    /\ \E teamSize \in 0..MaxTeamSizeArg :
          TeamSizeModifierCall(teamSize, pure.in[2])

\* another solve time, the same release time and difficulty
CallSpeedBonus ==
    /\ pure.fn = "calculateSpeedBonus"
    /\ \E e \in ElapsedValues :
          SpeedBonusCall(pure.in[1], ReleaseBase + e, pure.in[3])

\* another solve count, the same challenge and eligible team count
CallDynamicPoints ==
    /\ pure.fn = "calculateDynamicPoints"
    /\ \E sc \in 0..MaxSolveCount :
          DynamicPointsCall(pure.in[1], pure.in[2], sc)

InitPure ==
    /\ pure = NoCall
    /\ purePrev = NoCall
    /\ challenge = None
    /\ teams = 0
    /\ solves = {}
    /\ settings = None
    /\ profiles = [u \in Users |-> NullTeam]
    /\ ctf_teams = {}
    /\ req = [p \in Reqs |-> IdleReq]
    /\ teamCreate = [u \in Users |-> None]
    /\ LimiterIdle
    /\ RolesIdle

NextPure ==
    \/ FirstCall
    \/ CallTeamSizeModifier
    \/ CallSpeedBonus
    \/ CallDynamicPoints

SpecPure == InitPure /\ [][NextPure]_vars

----------------------------------------------------------------------------
(* Properties *)

Results == {Get(req[p].result) : p \in {q \in Reqs : IsSome(req[q].result)}}

Done == {p \in Reqs : req[p].pc = "done"}

C2_OneSolvePerTeam ==
    \A s1, s2 \in solves : s1.team_name = s2.team_name => s1 = s2

\* C3: of the answered submissions of one team, at most one was answered with
\* awarded > 0.
C3_OneAwardPerTeam ==
    \A p1, p2 \in Done :
        (/\ req[p1].teamName = req[p2].teamName
         /\ req[p1].awarded > 0
         /\ req[p2].awarded > 0) => p1 = p2

\* C4: a submission made when its team already had a recorded solve of the
\* challenge is answered with awarded = 0 and creates no solve record.
C4_ResubmissionIdempotent ==
    \A p \in Done :
        req[p].teamHadSolve => (req[p].awarded = 0 /\ ~req[p].inserted)

\* C5: every breakdown has totalPoints >= round(basePoints * 0.3), with the
\* breakdown's own basePoints, whichever reads failed.
C5_TotalAtLeastFloor ==
    \A b \in Results : b.totalPoints >= RoundDiv(b.basePoints * 3, 10)

TSM == "calculateTeamSizeModifier"

\* C6: for a fixed maxTeamSize the team-size modifier does not grow with the
\* team size, is exactly 1.0 for teamSize <= 1 and is never below 0.7.
C6_ModifierMonotone ==
    pure.fn = TSM =>
        /\ (pure.in[1] <= 1 => pure.out = ModifierDen(pure.in[2]))
        /\ 10 * pure.out >= 7 * ModifierDen(pure.in[2])
        /\ (purePrev.fn = TSM /\ purePrev.in[2] = pure.in[2]) =>
              /\ (purePrev.in[1] <= pure.in[1] => purePrev.out >= pure.out)
              /\ (pure.in[1] <= purePrev.in[1] => pure.out >= purePrev.out)

\* C7: for teamSize >= 1 and maxTeamSize >= 1 the team-size modifier is
\* greater than 0 and at most 1.0.
C7_ModifierInUnitInterval ==
    (pure.fn = TSM /\ pure.in[1] >= 1 /\ pure.in[2] >= 1) =>
        (pure.out > 0 /\ pure.out <= ModifierDen(pure.in[2]))

DP == "calculateDynamicPoints"

SameChallengeAndTeams ==
    /\ pure.fn = DP
    /\ purePrev.fn = DP
    /\ purePrev.in[1] = pure.in[1]
    /\ purePrev.in[2] = pure.in[2]

\* C8: with the challenge and the eligible team count fixed, dynamic points
\* do not grow with solveCount.
C8_DynamicPointsMonotone ==
    SameChallengeAndTeams =>
        /\ (purePrev.in[3] <= pure.in[3] => purePrev.out >= pure.out)
        /\ (pure.in[3] <= purePrev.in[3] => pure.out >= purePrev.out)

\* two calls for one challenge and team count: more solves, fewer points
C8_Witness ==
    /\ SameChallengeAndTeams
    /\ pure.in[2] > 0
    /\ purePrev.in[3] < pure.in[3]
    /\ purePrev.out > pure.out

\* C9: every breakdown, the fallback one included, has totalPoints =
\* round(dynamicPoints * teamSizeModifier) + firstBloodBonus + speedBonus.
C9_BreakdownSelfConsistent ==
    \A b \in Results :
        b.totalPoints =
            RoundDiv(b.dynamicPoints * b.teamSizeModifier,
                     ModifierDen(DefaultMaxTeamSize))
            + b.firstBloodBonus + b.speedBonus

\* a breakdown all of whose components count
C9_Witness ==
    \E b \in Results :
        /\ ~b.fallback
        /\ b.dynamicPoints > 0
        /\ b.teamSizeModifier # ModifierDen(DefaultMaxTeamSize)
        /\ b.firstBloodBonus > 0
        /\ b.speedBonus > 0

\* C10: a solve time before the release time, or a missing release time,
\* gives speed bonus 0 for every difficulty.
C10_NoBonusBeforeRelease ==
    pure.fn = "calculateSpeedBonus" =>
        ((IF IsNone(pure.in[1]) THEN TRUE ELSE pure.in[2] < Get(pure.in[1]))
            => pure.out = 0)

SB == "calculateSpeedBonus"

\* a call with a release time and a solve time not before it
NonNegativeElapsed ==
    /\ pure.fn = SB
    /\ IsSome(pure.in[1])
    /\ pure.in[2] >= Get(pure.in[1])

\* the (fast, medium) thresholds of the table, in minutes
FastMinutes ==
    [d \in Difficulties |->
        CASE d = "easy" -> 60 [] d = "hard" -> 240 [] d = "expert" -> 480
          [] OTHER -> 120]

MediumMinutes ==
    [d \in Difficulties |->
        CASE d = "easy" -> 360 [] d = "hard" -> 1440 [] d = "expert" -> 2880
          [] OTHER -> 720]

\* C11: for a non-negative elapsed time the speed bonus is 25 up to the
\* difficulty's fast threshold, 10 above it up to the medium threshold and 0
\* beyond, with (fast, medium) hours (1, 6) easy, (2, 12) medium, (4, 24)
\* hard, (8, 48) expert and the medium row for an unknown difficulty.
C11_SpeedBonusTable ==
    NonNegativeElapsed =>
        LET elapsed == pure.in[2] - Get(pure.in[1])
            d == pure.in[3]
        IN  /\ (elapsed <= FastMinutes[d] => pure.out = 25)
            /\ ((elapsed > FastMinutes[d] /\ elapsed <= MediumMinutes[d])
                    => pure.out = 10)
            /\ (elapsed > MediumMinutes[d] => pure.out = 0)

\* an unknown difficulty solved after 1 hour and within 2: the medium row's
\* fast bonus
C11_Witness ==
    /\ NonNegativeElapsed
    /\ pure.in[3] = "insane"
    /\ pure.in[2] - Get(pure.in[1]) > 60
    /\ pure.out = 25

\* C12: the aggregator honours each scoring toggle of the configuration:
\* dynamic scoring off gives dynamicPoints = basePoints, speed bonus off
\* gives speedBonus 0, team-size penalty off gives teamSizeModifier 1.0.
C12_TogglesHonoured ==
    \A b \in Results :
        IsSome(settings) =>
            /\ (~Get(settings).dynamic_scoring
                    => b.dynamicPoints = b.basePoints)
            /\ (~Get(settings).speed_bonus => b.speedBonus = 0)
            /\ (~Get(settings).team_size_penalty
                    => b.teamSizeModifier = ModifierDen(DefaultMaxTeamSize))

\* the rarity table of the claim, in tenths, on the solve rate in percent
RarityByRate(solveCount, totalTeams) ==
    LET below(pct) == 100 * solveCount < pct * totalTeams
    IN  IF solveCount = 0 THEN 20
        ELSE IF below(10) THEN 18
        ELSE IF below(25) THEN 15
        ELSE IF below(50) THEN 12
        ELSE IF below(80) THEN 10
        ELSE 7

\* a direct call for a challenge that has a base point value
DynamicPointsOfBase ==
    /\ pure.fn = DP
    /\ IsSome(pure.in[1])
    /\ Get(pure.in[1]).points > 0

C15_FirstBloodBonusAsConfigured ==
    \A b \in Results :
        IF solves = {}
        THEN /\ b.isFirstBlood
             /\ b.firstBloodBonus = IF IsNone(settings) THEN 50
                                    ELSE Get(settings).first_blood_bonus
        ELSE /\ ~b.isFirstBlood
             /\ b.firstBloodBonus = 0

\* C16: no step of a scoring computation (the reads of the calculators and
\* the aggregation) changes the solves, challenges, teams or settings store.
C16_ScoringWritesNothing ==
    [][UNCHANGED <<solves, challenge, teams, settings>>]_vars

\* a computation that ran through every read and returned a first-blood
\* breakdown
C16_Witness ==
    /\ req[1].pc = "scored"
    /\ \E b \in Results : ~b.fallback /\ b.isFirstBlood /\ b.dynamicPoints > 0

\* C17: one scoring computation works on one snapshot: also while an
\* administrator changes the challenge or the configuration, basePoints,
\* dynamicPoints, the echoed difficulty and category and firstBloodBonus of
\* the breakdown all come from one challenge row and one configuration.
C17_OneSnapshot ==
    \A b \in Results :
        \E row \in SnapRows, cfg \in {None} \cup SnapSettings :
            /\ b.basePoints = row.points
            /\ b.difficulty = row.difficulty
            /\ b.category = row.category
            /\ b.dynamicPoints =
                   DynamicPoints(Some(row), Some(teams),
                                 Some(Cardinality(solves)))
            /\ b.firstBloodBonus = FirstBloodBonusOf(cfg)

\* C18: every scoring operation ends by returning a breakdown, whichever of
\* its reads of the challenge, teams, solves and settings stores fail or come
\* back empty; no exception leaves calculateTotalScore.
C18_AlwaysReturnsBreakdown ==
    (req[1].pc = "ts_challenge")
        ~> (req[1].pc = "scored" /\ IsSome(req[1].result))

\* the breakdown of the catch block of calculateTotalScore was returned
C18_Witness ==
    /\ req[1].pc = "scored"
    /\ \E b \in Results : b.fallback

KnownDifficulties == {"easy", "medium", "hard", "expert"}
KnownCategories == {"crypto", "pwn", "reverse", "web", "forensics", "misc"}

\* the formula of the calculator with the neutral multiplier 1.0 for an
\* unknown difficulty or category
WithNeutralDefaults(ch, totalTeams, solveCount) ==
    LET base == BasePointsOf(ch.points)
        diffMult == IF ch.difficulty \in KnownDifficulties
                    THEN difficultyMultiplier(ch.difficulty) ELSE 10
        catMult == IF ch.category \in KnownCategories
                   THEN categoryMultiplier(ch.category) ELSE 10
        product == base * RarityByRate(solveCount, totalTeams) * diffMult
                     * catMult * (IF ch.daily THEN 3 ELSE 2)
    IN  IF totalTeams = 0 THEN base
        ELSE Max(RoundDiv(product, 2000), RoundDiv(3 * base, 10))

\* C20: on an input defect calculateDynamicPoints substitutes the neutral
\* default: an unknown difficulty or category counts as multiplier 1.0, a
\* missing base point value as the default base, and a missing challenge
\* yields the (default) base point value, never an error and never 0.
C20_NeutralDefaults ==
    pure.fn = DP =>
        IF IsNone(pure.in[1]) THEN pure.out = BasePointsOf(0)
        ELSE /\ pure.out =
                    WithNeutralDefaults(Get(pure.in[1]), pure.in[2], pure.in[3])
             /\ pure.out > 0

\* C21: inconsistent configuration is clamped before use: whatever bonus is
\* configured, a negative one included, the firstBloodBonus of a breakdown
\* is >= 0, and the team-size modifier is computed with a maximum team size
\* >= 1 (so it is a positive fraction of ModifierDen).
C21_ConfigurationClamped ==
    \A b \in Results :
        /\ b.firstBloodBonus >= 0
        /\ b.teamSizeModifier > 0
        /\ b.teamSizeModifier <= ModifierDen(DefaultMaxTeamSize)

\* the inputs of the worked example: eligible teams, no prior solve, a team
\* of one, solved 30 minutes after release, bonus 50 configured
ExampleInputs ==
    /\ challenge = Some(FlagChallenge)
    /\ teams > 0
    /\ solves = {}
    /\ settings = Some(SettingsRow(50, TRUE, TRUE, TRUE))
    /\ req[1].teamSize = 1
    /\ req[1].solveTime = ReleaseBase + 30

\* C22: for the 100-point hard crypto challenge (not daily) with no prior
\* solve among a non-empty set of eligible teams, solved by a team of one 30
\* minutes after release with first-blood bonus 50, the breakdown has
\* dynamicPoints 384, teamSizeModifier 1.0, speedBonus 25, firstBloodBonus 50
\* and totalPoints 459.
C22_WorkedExample ==
    ExampleInputs =>
        \A b \in Results :
            /\ b.dynamicPoints = 384
            /\ b.teamSizeModifier = ModifierDen(DefaultMaxTeamSize)
            /\ b.speedBonus = 25
            /\ b.firstBloodBonus = 50
            /\ b.isFirstBlood
            /\ b.totalPoints = 459

\* the example's computation has returned
C22_Witness ==
    /\ ExampleInputs
    /\ req[1].pc = "scored"
    /\ \E b \in Results : b.basePoints = 100 /\ b.totalPoints = 459

\* C23: for every key and every window, checkRateLimit returns allowed =
\* TRUE for at most maxRequests calls (5 for flag_submission); the allowed
\* call number n of a window reports remaining = maxRequests - n, and the
\* calls after the last allowed one are denied.
C23_AtMostMaxRequestsPerWindow ==
    /\ granted["flag_submission"].n <= 5
    /\ \A k \in EndpointTypes :
          /\ granted[k].n <= maxRequests(k)
          /\ (lastCheck.key = k /\ lastCheck.allowed)
                => /\ lastCheck.resetTime = granted[k].resetTime
                   /\ lastCheck.remaining = maxRequests(k) - granted[k].n

\* the sixth flag submission of a window has just been denied
C23_Witness ==
    /\ granted["flag_submission"].n = 5
    /\ granted["flag_submission"].resetTime >= now
    /\ lastCheck.key = "flag_submission"
    /\ ~lastCheck.allowed

\* C27: a request that middleware() lets through consumes exactly one unit
\* of the client's quota for its endpoint type and does not leave the
\* client blocked.
C27_PassConsumesOneUnit ==
    lastPass.passed => (lastPass.consumed = 1 /\ ~lastPass.blockedAfter)

\* the key is in an active block: blocked, with now < blockUntil
ActiveBlock(k) ==
    /\ rateLimitMap[k] # None
    /\ Get(rateLimitMap[k]).blocked
    /\ now < Get(rateLimitMap[k]).blockUntil

\* C28: while a key is blocked, every checkRateLimit call for it returns
\* allowed = FALSE and blocked = TRUE and leaves the entry (count, resetTime,
\* blockUntil) as it was: calls during a block do not extend it.
C28_BlockedCallsChangeNothing ==
    [][\A k \in EndpointTypes :
          (ActiveBlock(k) /\ lastCheck'.key = k)
              => /\ ~lastCheck'.allowed
                 /\ lastCheck'.blocked
                 /\ lastCheck'.resetTime = Get(rateLimitMap[k]).blockUntil
                 /\ rateLimitMap'[k] = rateLimitMap[k]]_vars

\* a call was denied in the middle of a block: after the block was set and
\* with more than one unit of it left
C28_Witness ==
    \E k \in EndpointTypes :
        /\ ActiveBlock(k)
        /\ lastCheck.key = k
        /\ lastCheck.blocked
        /\ now > Get(rateLimitMap[k]).blockUntil - blockDurationMs(k)
        /\ now + 1 < Get(rateLimitMap[k]).blockUntil

\* the key is rate-limited or blocked, early enough for the end of its
\* window and of any block to lie before MaxTime
Limited(k) ==
    /\ rateLimitMap[k] # None
    /\ \/ ActiveBlock(k)
       \/ /\ Get(rateLimitMap[k]).count >= maxRequests(k)
          /\ now <= Get(rateLimitMap[k]).resetTime
    /\ now + windowMs(k) + blockDurationMs(k) + 1 <= MaxTime

\* a checkRateLimit call for the key (from a route, or the first call of
\* the middleware) has just returned allowed with a fresh window
ServedAfresh(k) ==
    \/ /\ lastCheck.key = k
       /\ lastCheck.allowed
       /\ lastCheck.remaining = maxRequests(k) - 1
       /\ lastCheck.resetTime = now + windowMs(k)
    \/ /\ lastPass.key = k
       /\ lastPass.passed
       /\ lastPass.remaining = maxRequests(k) - 1
       /\ lastPass.resetTime = now + windowMs(k)

C30_CleanupInvisible ==
    LET cleaned == cleanupRateLimitEntries(rateLimitMap, now)
    IN  \A k \in EndpointTypes :
            /\ (cleaned[k] # rateLimitMap[k]) =>
                   /\ cleaned[k] = None
                   /\ now > Get(rateLimitMap[k]).resetTime
                   /\ ~ActiveBlock(k)
            /\ \A t \in now..MaxTime :
                   LET with == checkRateLimit(cleaned, k, t)
                       without == checkRateLimit(rateLimitMap, k, t)
                   IN  /\ with.result = without.result
                       /\ with.map[k] = without.map[k]

\* cleanup removes the entry of a key whose block has run out while the
\* other key keeps an entry
C30_Witness ==
    LET cleaned == cleanupRateLimitEntries(rateLimitMap, now)
    IN  \E k, j \in EndpointTypes :
            /\ rateLimitMap[k] # None
            /\ Get(rateLimitMap[k]).blocked
            /\ cleaned[k] = None
            /\ cleaned[j] # None

\* C26: calculateFirstBloodBonus reports isFirstBlood = TRUE only if the
\* solves store holds no solve of the challenge at its read (no step of the
\* computation changes the store); a read of the solves store that fails
\* gives no first blood for a challenge that already has solves.
C26_FirstBloodOnlyWithoutSolves ==
    \A b \in Results : (~b.fallback /\ b.isFirstBlood) => solves = {}

\* a write to user_roles came from a caller whose active role is super_admin
WrittenBySuperAdmin ==
    lastRoleWrite # None =>
        Get(lastRoleWrite).callerRole = Some("super_admin")

\* the users with a super_admin row
SuperAdmins(rows) == {u \in RoleUsers : RoleRow(u, "super_admin") \in rows}

\* a call that makes a user super_admin came from a super_admin
NoEscalation ==
    [][(SuperAdmins(user_roles') \ SuperAdmins(user_roles) # {}) =>
           Get(lastRoleWrite').callerRole = Some("super_admin")]_vars

\* C24: after any sequence of calls to POST and DELETE /api/admin/roles and
\* POST /api/admin/users, every write to user_roles was made by a caller
\* whose own active role is super_admin, and no caller without that role
\* has made a user super_admin.
C24_RolesWrittenBySuperAdminsOnly ==
    []WrittenBySuperAdmin /\ NoEscalation

\* the request went through every check of the route
PassedEveryCheck(g) ==
    /\ g.allowed /\ g.present /\ g.format
    /\ g.token = "valid" /\ g.displayName
    /\ g.known /\ g.correct

\* C25: the flag endpoint inserts a solve only on a request that passed
\* rate limiting, carried a token resolving to a user with a display name,
\* and whose flag equals the stored flag, the solve being that user's; a
\* rejected, unauthenticated or incorrect submission leaves the solves
\* store unchanged and is taken no further.
C25_SolveOnlyAfterEveryCheck ==
    [][/\ (solves' # solves) =>
            \E p \in Reqs :
                /\ req[p].pc = "insert" /\ req'[p].pc = "done"
                /\ PassedEveryCheck(req[p].gate)
                /\ solves' = solves \cup {[user_id |-> req[p].user,
                                            team_name |-> req[p].teamName]}
       /\ \A p \in Reqs :
            (/\ req[p].pc = "idle" /\ req'[p] # req[p]
             /\ ~PassedEveryCheck(req'[p].gate)) =>
                /\ solves' = solves
                /\ req'[p].pc = "rejected"
       /\ \A p \in Reqs :
            (req[p].pc = "rejected" /\ req'[p] # req[p]) =>
                /\ solves' = solves
                /\ req'[p] = IdleReq]_vars

\* the solve of a request that was the last one the rate limiter let
\* through in its window is in the store
C25_Witness ==
    /\ \E p \in Reqs :
          /\ req[p].pc = "done" /\ req[p].inserted
          /\ PassedEveryCheck(req[p].gate)
          /\ \E s \in solves : s.user_id = req[p].user
    /\ granted["flag_submission"].n = maxRequests("flag_submission")

====
